---- MODULE Spec2Model ----
(***************************************************************************)
(* Stage metadata store of DataCI: the stage / stage_tag tables, the       *)
(* functions of dataci/db/stage.py that query and mutate them, and the     *)
(* Stage.save / Stage.publish / Stage.get methods of dataci/models/stage.py *)
(* that call them.                                                         *)
(*                                                                         *)
(* Text is a sequence of one-character strings, so that startswith, [1:],  *)
(* lower(), int() and str() are computed as Python computes them.          *)
(***************************************************************************)
EXTENDS Integers, Sequences, FiniteSets, TLC

VARIABLES stage, stage_tag, pc, next_tag, ret,
          workflow, dataset, dataset_tag, run, init_imported, environ, dag, save_pc,
          run_pc, run_num

\* the tables of dataci/db/init.py, the interpreter's import of that module
\* and the environment variable DATACI_WORKSPACE
storeVars == <<workflow, dataset, dataset_tag, run, init_imported, environ>>

vars == <<stage, stage_tag, pc, next_tag, ret, storeVars, dag, save_pc, run_pc, run_num>>

(***************************************************************************)
(* Bounds of the model.                                                    *)
(***************************************************************************)
MaxStageRows == 2
MaxTagNum == 2
NumPublishers == 3

(***************************************************************************)
(* Domains the inputs are drawn from.                                      *)
(***************************************************************************)
Workspaces == {"wa", "wb"}
Names == {"clean"}
Params == {"lower_true", "lower_false"}
Timestamps == {1}
Versions == {<<"a">>, <<"a", "b">>, <<"a", "c">>}
Publishers == 1..NumPublishers

\* Python None / SQL NULL
None == <<"None">>

\* None (SQL NULL) where a workspace or a name stands
NoName == "None"

(***************************************************************************)
(* Text helpers.                                                           *)
(***************************************************************************)
DigitChars == <<"0", "1", "2", "3", "4", "5", "6", "7", "8", "9">>

IsDigit(c) == \E i \in 1..10 : DigitChars[i] = c

DigitVal(c) == (CHOOSE i \in 1..10 : DigitChars[i] = c) - 1

\* the characters of the model in code-point order: digits, upper, lower
Alphabet == <<"0", "1", "2", "3", "4", "5", "6", "7", "8", "9",
              "A", "D", "E", "H", "a", "b", "c", "d", "e", "f", "h", "l", "s", "t", "v">>

Ord(c) == CHOOSE i \in 1..Len(Alphabet) : Alphabet[i] = c

\* str.lower() on one character
LowerChar(c) ==
    LET upper == <<"A", "B", "C", "D", "E", "F", "G", "H", "I", "J", "K", "L", "M",
                   "N", "O", "P", "Q", "R", "S", "T", "U", "V", "W", "X", "Y", "Z">>
        lower == <<"a", "b", "c", "d", "e", "f", "g", "h", "i", "j", "k", "l", "m",
                   "n", "o", "p", "q", "r", "s", "t", "u", "v", "w", "x", "y", "z">>
    IN  IF \E i \in 1..26 : upper[i] = c
        THEN lower[CHOOSE i \in 1..26 : upper[i] = c]
        ELSE c

\* str.lower()
Lower(s) == [i \in 1..Len(s) |-> LowerChar(s[i])]

\* str.startswith(c) for a one-character prefix
StartsWith(s, c) == Len(s) > 0 /\ s[1] = c

\* s[1:]
Rest(s) == IF Len(s) = 0 THEN <<>> ELSE Tail(s)

\* a is a prefix of b
IsPrefix(a, b) == Len(a) <= Len(b) /\ SubSeq(b, 1, Len(a)) = a

\* text made of decimal digits only
IsNumeric(s) == Len(s) > 0 /\ \A i \in 1..Len(s) : IsDigit(s[i])

RECURSIVE StrToInt(_)
\* int(s) for a string of decimal digits
StrToInt(s) ==
    IF Len(s) = 0 THEN 0
    ELSE 10 * StrToInt(SubSeq(s, 1, Len(s) - 1)) + DigitVal(s[Len(s)])

RECURSIVE IntToStr(_)
\* str(n) for n >= 0
IntToStr(n) ==
    IF n < 10 THEN <<DigitChars[n + 1]>>
    ELSE IntToStr(n \div 10) \o <<DigitChars[(n % 10) + 1]>>

\* binary collation of SQLite TEXT: a < b
TextLess(a, b) ==
    \/ /\ Len(a) < Len(b)
       /\ SubSeq(b, 1, Len(a)) = a
    \/ \E i \in 1..Len(a) :
          /\ i <= Len(b)
          /\ SubSeq(a, 1, i - 1) = SubSeq(b, 1, i - 1)
          /\ Ord(a[i]) < Ord(b[i])

latest == <<"l", "a", "t", "e", "s", "t">>
HEAD == <<"H", "E", "A", "D">>

\* the tag token 'v<N>'
TagToken(n) == <<"v">> \o IntToStr(n)


\* SQL NULL in the integer column stage_tag.tag (and Python None read from it)
NoTag == -1

(***************************************************************************)
(* Schema of the stage and stage_tag relations.  The CREATE TABLE          *)
(* statements of these two relations are not part of the sources at hand;  *)
(* the keys below are the uniqueness and foreign-key constraints that the  *)
(* persisted layout prescribes for them.                                   *)
(***************************************************************************)
\* PRIMARY KEY (workspace, name, version) of stage
StageKey(r) == <<r.workspace, r.name, r.version>>

\* UNIQUE (workspace, name, tag) of stage_tag
StageTagKey(r) == <<r.workspace, r.name, r.tag>>

\* FOREIGN KEY (workspace, name, version) of stage_tag REFERENCES stage
StageTagForeignKey(stages, t) ==
    \E s \in stages : StageKey(s) = <<t.workspace, t.name, t.version>>

\* json.dumps / json.loads of the params column
JsonDumps(p) == <<"json", p>>

JsonLoads(j) == j[2]

\* comparison  tag = :version  of an INTEGER column with a bound text:
\* the text is converted to a number when it looks like one
SqlTagEq(tag, text) == IsNumeric(text) /\ StrToInt(text) = tag

(***************************************************************************)
(* dataci/db/stage.py.  Every function runs in its own transaction         *)
(* (with db_connection), so each is one atomic step.  A mutating function  *)
(* yields [kind, table]; a failed INSERT leaves the table as it was.       *)
(***************************************************************************)
\* INSERT INTO stage (...) VALUES (...)
create_one_stage(stages, stage_dict) ==
    LET row == [workspace |-> stage_dict.workspace, name |-> stage_dict.name,
                version |-> stage_dict.version, params |-> JsonDumps(stage_dict.params),
                script_path |-> stage_dict.script_path, timestamp |-> stage_dict.timestamp]
    IN  IF "params" \notin DOMAIN stage_dict
        THEN \* stage_dict['params']
             [kind |-> "KeyError", table |-> stages]
        ELSE IF \E s \in stages : StageKey(s) = StageKey(row)
        THEN [kind |-> "IntegrityError", table |-> stages]
        ELSE [kind |-> "ok", table |-> stages \cup {row}]

\* create_one_stage_tag without the reference to stage: a tag row is inserted
\* for any version, saved or not
create_one_stage_tag_unreferenced(stages, tags, stage_dict) ==
    LET row == [workspace |-> stage_dict.workspace, name |-> stage_dict.name,
                version |-> stage_dict.version,
                tag |-> StrToInt(Rest(stage_dict.version_tag))]
    IN  IF \E t \in tags : StageTagKey(t) = StageTagKey(row)
        THEN [kind |-> "IntegrityError", table |-> tags]
        ELSE [kind |-> "ok", table |-> tags \cup {row}]

\* create_one_stage_tag as INSERT OR REPLACE: a taken tag is moved to the new version
create_one_stage_tag_replace(stages, tags, stage_dict) ==
    LET row == [workspace |-> stage_dict.workspace, name |-> stage_dict.name,
                version |-> stage_dict.version,
                tag |-> StrToInt(Rest(stage_dict.version_tag))]
    IN  IF ~StageTagForeignKey(stages, row)
        THEN [kind |-> "IntegrityError", table |-> tags]
        ELSE [kind |-> "ok",
              table |-> {t \in tags : StageTagKey(t) # StageTagKey(row)} \cup {row}]

\* INSERT INTO stage_tag (...) VALUES (...), version_tag 'v1' -> 1
create_one_stage_tag(stages, tags, stage_dict) ==
    LET row == [workspace |-> stage_dict.workspace, name |-> stage_dict.name,
                version |-> stage_dict.version,
                tag |-> StrToInt(Rest(stage_dict.version_tag))]
    IN  IF \/ \E t \in tags : StageTagKey(t) = StageTagKey(row)
           \/ ~StageTagForeignKey(stages, row)
        THEN [kind |-> "IntegrityError", table |-> tags]
        ELSE [kind |-> "ok", table |-> tags \cup {row}]

\* SELECT EXISTS(...): 1 or 0; version None has no startswith
exist_stage(stages, tags, workspace, name, version) ==
    IF version = None
    THEN [kind |-> "AttributeError"]
    ELSE IF StartsWith(version, "v")
    THEN [kind |-> "ok",
          value |-> IF \E t \in tags : /\ t.workspace = workspace
                                       /\ t.name = name
                                       /\ SqlTagEq(t.tag, Rest(version))
                    THEN 1 ELSE 0]
    ELSE [kind |-> "ok",
          value |-> IF \E s \in stages : /\ s.workspace = workspace
                                         /\ s.name = name
                                         /\ s.version = version
                    THEN 1 ELSE 0]

\* SELECT tag FROM stage_tag WHERE ...; fetchone() takes any of the rows:
\* the set of values the call can return
get_stage_tag_or_none(tags, workspace, name, version) ==
    LET rows == {t \in tags : /\ t.workspace = workspace
                              /\ t.name = name
                              /\ t.version = version}
    IN  IF rows = {} THEN {NoTag} ELSE {t.tag : t \in rows}

\* SELECT COALESCE(MAX(tag), 0) + 1, returned as 'v' + str(...)
get_next_stage_version_tag(tags, workspace, name) ==
    LET rows == {t \in tags : t.workspace = workspace /\ t.name = name}
        max == IF rows = {} THEN 0
               ELSE CHOOSE m \in {t.tag : t \in rows} : \A t \in rows : t.tag <= m
    IN  <<"v">> \o IntToStr(max + 1)


\* get_one_stage_rows with the hex branch matching by prefix (version LIKE :version%)
get_one_stage_rows_prefix(stages, tags, workspace, name, version) ==
    LET base  == {s \in stages : s.workspace = workspace /\ s.name = name}
        tagws == {t \in tags : t.workspace = workspace /\ t.name = name}
        row(b, k) == [workspace |-> b.workspace, name |-> b.name, version |-> b.version,
                      tag |-> k, params |-> b.params, script_path |-> b.script_path,
                      timestamp |-> b.timestamp]
    IN  IF version = latest
        THEN {row(x[1], x[2].tag) : x \in {y \in base \X {t \in tagws : \A u \in tagws : u.tag <= t.tag}
                                            : y[1].version = y[2].version}}
        ELSE IF StartsWith(version, "v")
        THEN {row(x[1], x[2].tag) : x \in {y \in base \X {t \in tagws : SqlTagEq(t.tag, Rest(version))}
                                            : y[1].version = y[2].version}}
        ELSE {row(b, NoTag) : b \in {x \in base : IsPrefix(version, x.version)}}

\* the rows the SELECT of get_one_stage yields (base JOIN tag); tag is NoTag
\* where the LEFT JOIN finds no tag row
get_one_stage_rows(stages, tags, workspace, name, version) ==
    LET base  == {s \in stages : s.workspace = workspace /\ s.name = name}
        tagws == {t \in tags : t.workspace = workspace /\ t.name = name}
        join(bs, ts) == {[workspace |-> b.workspace, name |-> b.name, version |-> b.version,
                          tag |-> t.tag, params |-> b.params, script_path |-> b.script_path,
                          timestamp |-> b.timestamp]
                         : <<b, t>> \in {x \in bs \X ts : x[1].version = x[2].version}}
    IN  IF version = latest
        THEN \* ORDER BY tag DESC LIMIT 1
             join(base, {t \in tagws : \A u \in tagws : u.tag <= t.tag})
        ELSE IF StartsWith(version, "v")
        THEN join(base, {t \in tagws : SqlTagEq(t.tag, Rest(version))})
        ELSE LET exact == {s \in base : s.version = version}
                 tagv  == {t \in tagws : t.version = version}
             IN  join(exact, tagv)
                 \cup {[workspace |-> b.workspace, name |-> b.name, version |-> b.version,
                        tag |-> NoTag, params |-> b.params, script_path |-> b.script_path,
                        timestamp |-> b.timestamp]
                       : b \in {x \in exact : tagv = {}}}

\* the dict built from po = cur.fetchone(): <<row>>, or <<>> for None
get_one_stage_dict(po) ==
    IF po = <<>>
    THEN \* po[0] on None
         [kind |-> "TypeError", line |-> 226]
    ELSE IF po[1].tag # NoTag /\ po[1].tag # 0
    THEN \* 'v' + po[3] with po[3] an int
         [kind |-> "TypeError", line |-> 229]
    ELSE [kind |-> "ok", workspace |-> po[1].workspace, name |-> po[1].name,
          version |-> po[1].version, tag |-> NoTag, params |-> JsonLoads(po[1].params),
          script_path |-> po[1].script_path, timestamp |-> po[1].timestamp]

\* the set of outcomes get_one_stage can have: fetchone() takes any row
get_one_stage(stages, tags, workspace, name, version) ==
    IF version = None
    THEN \* None == 'latest' is False, then None.startswith
         {[kind |-> "AttributeError"]}
    ELSE LET rows == get_one_stage_rows(stages, tags, workspace, name, version)
         IN  IF rows = {} THEN {get_one_stage_dict(<<>>)}
             ELSE {get_one_stage_dict(<<po>>) : po \in rows}

RECURSIVE Glob(_, _)
\* SQLite GLOB on text: '*' matches any run of characters, '?' any one
Glob(pat, s) ==
    IF Len(pat) = 0 THEN Len(s) = 0
    ELSE IF pat[1] = "*"
    THEN Glob(Tail(pat), s) \/ (Len(s) > 0 /\ Glob(pat, Tail(s)))
    ELSE /\ Len(s) > 0
         /\ (pat[1] = "?" \/ pat[1] = s[1])
         /\ Glob(Tail(pat), Tail(s))

\* name GLOB :name for the name patterns of the model: a literal name or '*'
NameGlob(pat, name) == pat = "*" \/ pat = name

\* get_many_stages whose pattern query never adds  AND version <> '' : the
\* flag all is ignored
get_many_stages_unfiltered(stages, workspace, name, version_arg, all) ==
    LET version == IF version_arg = None THEN <<>> ELSE version_arg
        dict(p) == [workspace |-> p.workspace, name |-> p.name, version |-> p.version,
                    params |-> JsonLoads(p.params), script_path |-> p.script_path,
                    timestamp |-> p.timestamp]
        head == {s \in stages : /\ s.workspace = workspace
                                /\ s.name = name
                                /\ s.version = version}
        named == {s \in stages : /\ s.workspace = workspace
                                 /\ NameGlob(name, s.name)
                                 /\ s.version # None
                                 /\ s.version # <<>>}
    IN  IF version = <<>>
        THEN \* fetchall() returns a list, never None: no fall through to 'latest'
             {dict(p) : p \in head}
        ELSE IF version = latest
        THEN \* ROW_NUMBER() OVER (PARTITION BY workspace, name ORDER BY version DESC) = 1
             {dict(p) : p \in {s \in named :
                 \A u \in named : u.name = s.name => ~TextLess(s.version, u.version)}}
        ELSE {dict(p) : p \in {s \in stages :
                 /\ s.workspace = workspace
                 /\ NameGlob(name, s.name)
                 /\ s.version # None
                 /\ Glob(version, s.version)}}

\* the rows get_many_stages returns (fetchall(), without an ORDER BY: a set)
get_many_stages(stages, workspace, name, version_arg, all) ==
    LET version == IF version_arg = None THEN <<>> ELSE version_arg
        dict(p) == [workspace |-> p.workspace, name |-> p.name, version |-> p.version,
                    params |-> JsonLoads(p.params), script_path |-> p.script_path,
                    timestamp |-> p.timestamp]
        head == {s \in stages : /\ s.workspace = workspace
                                /\ s.name = name
                                /\ s.version = version}
        named == {s \in stages : /\ s.workspace = workspace
                                 /\ NameGlob(name, s.name)
                                 /\ s.version # None
                                 /\ s.version # <<>>}
    IN  IF version = <<>>
        THEN \* fetchall() returns a list, never None: no fall through to 'latest'
             {dict(p) : p \in head}
        ELSE IF version = latest
        THEN \* ROW_NUMBER() OVER (PARTITION BY workspace, name ORDER BY version DESC) = 1
             {dict(p) : p \in {s \in named :
                 \A u \in named : u.name = s.name => ~TextLess(s.version, u.version)}}
        ELSE {dict(p) : p \in {s \in stages :
                 /\ s.workspace = workspace
                 /\ NameGlob(name, s.name)
                 /\ s.version # None
                 /\ Glob(version, s.version)
                 /\ (all \/ s.version # <<>>)}}


(***************************************************************************)
(* dataci/models/stage.py.  A method yields its outcome and the stage      *)
(* table it leaves behind.  The content of a Stage object is its script.   *)
(***************************************************************************)
\* Python truthiness of an optional text: None and '' are false
Falsy(v) == v = None \/ v = <<>>

\* update_one_stage is imported from dataci.db.stage, which does not define
\* it: the row of that version is overwritten in place
update_one_stage(stages, config) ==
    {IF StageKey(s) = <<config.workspace, config.name, config.version>>
     THEN [s EXCEPT !.script_path = config.script_path, !.timestamp = config.timestamp]
     ELSE s : s \in stages}

\* Stage.save: config['version'] = None, then exist_stage, then create or update
Stage_save(stages, tags, workspace, name, script, now) ==
    LET config == [name |-> name, workspace |-> workspace, version |-> None,
                   script |-> script, timestamp |-> now,
                   script_path |-> <<name, HEAD>>]
        exist == exist_stage(stages, tags, config.workspace, config.name, config.version)
    IN  IF exist.kind # "ok"
        THEN [kind |-> exist.kind, stage |-> stages]
        ELSE IF exist.value = 0
        THEN LET created == create_one_stage(stages, config)
             IN  [kind |-> created.kind, stage |-> created.table,
                  version |-> config.version, timestamp |-> config.timestamp]
        ELSE [kind |-> "ok", stage |-> update_one_stage(stages, config),
              version |-> config.version, timestamp |-> config.timestamp]

\* get_next_stage_version_id is imported from dataci.db.stage, which does not
\* define it: the next integer after the published version ids of the stage
get_next_stage_version_id(stages, workspace, name) ==
    LET ids == {StrToInt(s.version) : s \in {x \in stages :
                    /\ x.workspace = workspace
                    /\ x.name = name
                    /\ x.version # None
                    /\ IsNumeric(x.version)}}
    IN  IF ids = {} THEN 1 ELSE 1 + CHOOSE m \in ids : \A i \in ids : i <= m

\* Stage.publish: save(), then a stage row under the next version id
Stage_publish(stages, tags, workspace, name, script, now) ==
    LET saved == Stage_save(stages, tags, workspace, name, script, now)
    IN  IF saved.kind # "ok"
        THEN [kind |-> saved.kind, stage |-> saved.stage]
        ELSE LET version == IntToStr(get_next_stage_version_id(saved.stage, workspace, name))
                 config == [name |-> name, workspace |-> workspace, version |-> version,
                            script |-> script, timestamp |-> saved.timestamp,
                            script_path |-> <<name, version>>]
                 created == create_one_stage(saved.stage, config)
             IN  [kind |-> created.kind, stage |-> created.table,
                  version |-> config.version, timestamp |-> config.timestamp]

\* Stage_get without the check that only one version is given: the explicit
\* version wins
Stage_get_either(stages, tags, workspace, name, version, version_) ==
    LET v1 == IF ~Falsy(version) THEN version ELSE version_
        v2 == IF Falsy(v1) THEN v1
              ELSE IF Lower(v1) = <<"n", "o", "n", "e">> THEN None ELSE Lower(v1)
    IN  get_one_stage(stages, tags, workspace, name, v2)

\* Stage.get after the identifier is parsed into workspace, name and the
\* embedded version_ (None when absent); version is the explicit argument
Stage_get(stages, tags, workspace, name, version, version_) ==
    IF ~Falsy(version) /\ ~Falsy(version_)
    THEN {[kind |-> "ValueError"]}
    ELSE LET v1 == IF ~Falsy(version) THEN version ELSE version_
             v2 == IF Falsy(v1) THEN v1
                   ELSE IF Lower(v1) = <<"n", "o", "n", "e">> THEN None ELSE Lower(v1)
         IN  get_one_stage(stages, tags, workspace, name, v2)


(***************************************************************************)
(* The store and its callers.  ret is the outcome of the last call; W is   *)
(* the set of workspaces the callers address.                              *)
(***************************************************************************)
Init ==
    /\ stage = {}
    /\ stage_tag = {}
    /\ pc = [p \in Publishers |-> "idle"]
    /\ next_tag = [p \in Publishers |-> <<>>]
    /\ ret = [op |-> "none"]
    /\ workflow = {}
    /\ dataset = {}
    /\ dataset_tag = {}
    /\ run = {}
    /\ init_imported = FALSE
    /\ environ = NoName
    /\ dag = <<>>
    /\ save_pc = [p \in Publishers |-> "idle"]
    /\ run_pc = [p \in Publishers |-> "idle"]
    /\ run_num = [p \in Publishers |-> 0]

\* the version arguments a caller passes to the query functions
QueryVersions ==
    Versions \cup {latest} \cup {TagToken(n) : n \in 1..MaxTagNum}

\* the workspace the callers of Spec work in
CallerWorkspaces == {"wa"}

\* a caller inserts a stage row
CallCreateOneStage(W) ==
    \E w \in W, n \in Names, v \in Versions, p \in Params, ts \in Timestamps :
        LET out == create_one_stage(stage, [workspace |-> w, name |-> n, version |-> v,
                                            params |-> p, script_path |-> <<n, v>>,
                                            timestamp |-> ts])
        IN  /\ Cardinality(stage) < MaxStageRows
            /\ stage' = out.table
            /\ ret' = [op |-> "create_one_stage", kind |-> out.kind, workspace |-> w,
                       name |-> n, version |-> v]
            /\ UNCHANGED <<stage_tag, pc, next_tag, storeVars, dag, save_pc, run_pc, run_num>>

\* a caller inserts a tag row
CallCreateOneStageTag(W) ==
    \E w \in W, n \in Names, v \in Versions, k \in 1..MaxTagNum :
        LET out == create_one_stage_tag(stage, stage_tag,
                       [workspace |-> w, name |-> n, version |-> v, version_tag |-> TagToken(k)])
        IN  /\ stage_tag' = out.table
            /\ ret' = [op |-> "create_one_stage_tag", kind |-> out.kind, workspace |-> w,
                       name |-> n, version |-> v, tag |-> k]
            /\ UNCHANGED <<stage, pc, next_tag, storeVars, dag, save_pc, run_pc, run_num>>

CallExistStage(W) ==
    \E w \in W, n \in Names, v \in {None, <<"a">>, TagToken(1)} :
        /\ ret' = [op |-> "exist_stage", workspace |-> w, name |-> n, version |-> v,
                   out |-> exist_stage(stage, stage_tag, w, n, v)]
        /\ UNCHANGED <<stage, stage_tag, pc, next_tag, storeVars, dag, save_pc, run_pc, run_num>>

CallGetStageTagOrNone(W) ==
    \E w \in W, n \in Names, v \in Versions :
        \E out \in get_stage_tag_or_none(stage_tag, w, n, v) :
            /\ ret' = [op |-> "get_stage_tag_or_none", workspace |-> w, name |-> n,
                       version |-> v, out |-> out]
            /\ UNCHANGED <<stage, stage_tag, pc, next_tag, storeVars, dag, save_pc, run_pc, run_num>>

CallGetNextStageVersionTag(W) ==
    \E w \in W, n \in Names :
        /\ ret' = [op |-> "get_next_stage_version_tag", workspace |-> w, name |-> n,
                   out |-> get_next_stage_version_tag(stage_tag, w, n)]
        /\ UNCHANGED <<stage, stage_tag, pc, next_tag, storeVars, dag, save_pc, run_pc, run_num>>

CallGetOneStage(W) ==
    \E w \in W, n \in Names, v \in QueryVersions \cup {None} :
        \E out \in get_one_stage(stage, stage_tag, w, n, v) :
            /\ ret' = [op |-> "get_one_stage", workspace |-> w, name |-> n,
                       version |-> v, out |-> out]
            /\ UNCHANGED <<stage, stage_tag, pc, next_tag, storeVars, dag, save_pc, run_pc, run_num>>

CallGetManyStages(W) ==
    \E w \in W, n \in Names \cup {"*"}, v \in {None, latest, <<"a", "*">>},
       all \in BOOLEAN :
        /\ (n = "*") = (v = <<"a", "*">>)
        /\ all => v = <<"a", "*">>
        /\ ret' = [op |-> "get_many_stages", workspace |-> w, name |-> n, version |-> v,
                   all |-> all, out |-> get_many_stages(stage, w, n, v, all)]
        /\ UNCHANGED <<stage, stage_tag, pc, next_tag, storeVars, dag, save_pc, run_pc, run_num>>

CallStageSave(W) ==
    \E w \in W, n \in Names, script \in Params, now \in Timestamps :
        LET out == Stage_save(stage, stage_tag, w, n, script, now)
        IN  /\ stage' = out.stage
            /\ ret' = [op |-> "Stage.save", kind |-> out.kind, workspace |-> w, name |-> n,
                       script |-> script,
                       version |-> IF out.kind = "ok" THEN out.version ELSE None]
            /\ UNCHANGED <<stage_tag, pc, next_tag, storeVars, dag, save_pc, run_pc, run_num>>

CallStagePublish(W) ==
    \E w \in W, n \in Names, script \in Params, now \in Timestamps :
        LET out == Stage_publish(stage, stage_tag, w, n, script, now)
        IN  /\ stage' = out.stage
            /\ ret' = [op |-> "Stage.publish", kind |-> out.kind, workspace |-> w, name |-> n,
                       script |-> script,
                       version |-> IF out.kind = "ok" THEN out.version ELSE None,
                       tag |-> NoTag]
            /\ UNCHANGED <<stage_tag, pc, next_tag, storeVars, dag, save_pc, run_pc, run_num>>

CallStageGet(W) ==
    \E w \in W, n \in Names, v \in {None, latest, HEAD, <<"A">>}, v_ \in {None, <<"a">>} :
        \E out \in Stage_get(stage, stage_tag, w, n, v, v_) :
            /\ ret' = [op |-> "Stage.get", workspace |-> w, name |-> n,
                       version |-> v, version_ |-> v_, out |-> out]
            /\ UNCHANGED <<stage, stage_tag, pc, next_tag, storeVars, dag, save_pc, run_pc, run_num>>

Next ==
    \/ CallCreateOneStage(CallerWorkspaces)
    \/ CallCreateOneStageTag(CallerWorkspaces)
    \/ CallExistStage(CallerWorkspaces)
    \/ CallGetStageTagOrNone(CallerWorkspaces)
    \/ CallGetNextStageVersionTag(CallerWorkspaces)
    \/ CallGetOneStage(CallerWorkspaces)
    \/ CallGetManyStages(CallerWorkspaces)
    \/ CallStageSave(CallerWorkspaces)
    \/ CallStagePublish(CallerWorkspaces)
    \/ CallStageGet(CallerWorkspaces)

Spec == Init /\ [][Next]_vars


(***************************************************************************)
(* Concurrent publishers of one stage.  Publisher p saves its own content  *)
(* (a version of its own), asks for the next tag and inserts the tag row;  *)
(* the three calls are three transactions, so calls of other publishers    *)
(* can run between them.                                                    *)
(***************************************************************************)
PubWorkspace == "wa"
PubName == "clean"

\* the content-derived version of publisher p: distinct content, distinct id
PubVersion(p) == <<"f">> \o IntToStr(p)

PubSave(p) ==
    LET out == create_one_stage(stage, [workspace |-> PubWorkspace, name |-> PubName,
                                        version |-> PubVersion(p), params |-> "lower_true",
                                        script_path |-> <<PubName, PubVersion(p)>>,
                                        timestamp |-> 1])
    IN  /\ pc[p] = "idle"
        /\ stage' = out.table
        /\ pc' = [pc EXCEPT ![p] = IF out.kind = "ok" THEN "saved" ELSE "failed"]
        /\ UNCHANGED <<stage_tag, next_tag, ret, storeVars, dag, save_pc, run_pc, run_num>>

PubGetNext(p) ==
    /\ pc[p] = "saved"
    /\ next_tag' = [next_tag EXCEPT ![p] = get_next_stage_version_tag(stage_tag, PubWorkspace, PubName)]
    /\ pc' = [pc EXCEPT ![p] = "allocated"]
    /\ UNCHANGED <<stage, stage_tag, ret, storeVars, dag, save_pc, run_pc, run_num>>

PubTag(p) ==
    LET out == create_one_stage_tag(stage, stage_tag,
                   [workspace |-> PubWorkspace, name |-> PubName,
                    version |-> PubVersion(p), version_tag |-> next_tag[p]])
    IN  /\ pc[p] = "allocated"
        /\ stage_tag' = out.table
        /\ pc' = [pc EXCEPT ![p] = IF out.kind = "ok" THEN "done" ELSE "failed"]
        /\ UNCHANGED <<stage, next_tag, ret, storeVars, dag, save_pc, run_pc, run_num>>

NextPublish == \E p \in Publishers : PubSave(p) \/ PubGetNext(p) \/ PubTag(p)

SpecPublish == Init /\ [][NextPublish]_vars


(***************************************************************************)
(* Concurrent callers of Stage.save for the same content of one stage.     *)
(* exist_stage and the create_one_stage / update_one_stage that follows    *)
(* are two transactions: calls of other callers can run between them.      *)
(***************************************************************************)
\* the config of the save of caller p: the same content for every caller
SaveConfig(p) ==
    [name |-> PubName, workspace |-> PubWorkspace, version |-> None,
     script |-> "lower_true", timestamp |-> 1, script_path |-> <<PubName, HEAD>>]

\* one transaction of the save of caller p
SaveStep(p) ==
    LET config == SaveConfig(p)
        exist == exist_stage(stage, stage_tag, config.workspace, config.name, config.version)
        created == create_one_stage(stage, config)
    IN  /\ save_pc[p] \in {"idle", "create", "update"}
        /\ CASE save_pc[p] = "idle" ->
                    /\ save_pc' = [save_pc EXCEPT ![p] =
                                       IF exist.kind # "ok" THEN "failed"
                                       ELSE IF exist.value = 0 THEN "create" ELSE "update"]
                    /\ stage' = stage
             [] save_pc[p] = "create" ->
                    /\ save_pc' = [save_pc EXCEPT ![p] =
                                       IF created.kind = "ok" THEN "done" ELSE "failed"]
                    /\ stage' = created.table
             [] save_pc[p] = "update" ->
                    /\ save_pc' = [save_pc EXCEPT ![p] = "done"]
                    /\ stage' = update_one_stage(stage, config)
        /\ UNCHANGED <<stage_tag, pc, next_tag, ret, storeVars, dag, run_pc, run_num>>

NextSave ==
    \/ \E p \in Publishers : SaveStep(p)
    \/ CallCreateOneStage(CallerWorkspaces)

SpecSave == Init /\ [][NextSave]_vars

(***************************************************************************)
(* dataci/db/init.py: the relations workflow, dataset, dataset_tag and     *)
(* run.  A row is a record of its columns; None is SQL NULL.  The          *)
(* constraints are the PRIMARY KEY and FOREIGN KEY clauses of the CREATE   *)
(* TABLE statements.                                                       *)
(***************************************************************************)
DatasetNames == {"d"}
DatasetVersions == {<<"1">>, <<"2">>}
WorkflowNames == {"w"}
WorkflowVersions == {<<"1">>}

\* a reference of three NULL columns
NullRef == [workspace |-> NoName, name |-> NoName, version |-> None]

\* a column of the key or of the reference is NULL
HasNull(workspace, name, version) ==
    workspace = NoName \/ name = NoName \/ version = None

\* PRIMARY KEY (workspace, name, version) of workflow and of dataset
RowKey(r) == <<r.workspace, r.name, r.version>>

\* a key with a NULL column equals no other key
KeyClash(rows, row) ==
    /\ ~HasNull(row.workspace, row.name, row.version)
    /\ \E r \in rows : RowKey(r) = RowKey(row)

\* FOREIGN KEY (parent_dataset_workspace, parent_dataset_name, parent_dataset_version)
\*   REFERENCES dataset (workspace, name, version); a reference with a NULL
\*   column is not checked
DatasetParentForeignKey(datasets, row) ==
    \/ HasNull(row.parent_dataset_workspace, row.parent_dataset_name,
               row.parent_dataset_version)
    \/ \E r \in datasets : RowKey(r) = <<row.parent_dataset_workspace,
                                         row.parent_dataset_name,
                                         row.parent_dataset_version>>

\* FOREIGN KEY (yield_workflow_workspace, yield_workflow_name, yield_workflow_version)
\*   REFERENCES workflow (workspace, name, version)
DatasetWorkflowForeignKey(workflows, row) ==
    \/ HasNull(row.yield_workflow_workspace, row.yield_workflow_name,
               row.yield_workflow_version)
    \/ \E w \in workflows : RowKey(w) = <<row.yield_workflow_workspace,
                                          row.yield_workflow_name,
                                          row.yield_workflow_version>>

\* FOREIGN KEY (dataset_name, dataset_version) REFERENCES dataset (name, version)
\* and FOREIGN KEY (workflow_name, workflow_version) REFERENCES workflow (name,
\* version): the referenced columns are no key of the parent table, which
\* SQLite reports as a foreign key mismatch on every write to the child
ForeignKeyMismatch == TRUE

\* whether the connection enforces the FOREIGN KEY clauses (the connection
\* is opened in dataci/db/__init__.py)
ForeignKeysEnforced == TRUE

\* INSERT INTO workflow
create_one_workflow(workflows, workflow_dict) ==
    LET row == [workspace |-> workflow_dict.workspace, name |-> workflow_dict.name,
                version |-> workflow_dict.version, timestamp |-> workflow_dict.timestamp]
    IN  IF KeyClash(workflows, row)
        THEN [kind |-> "IntegrityError", table |-> workflows]
        ELSE [kind |-> "ok", table |-> workflows \cup {row}]

\* INSERT INTO dataset of the dict Dataset.dict() builds
create_one_dataset(datasets, workflows, dataset_dict) ==
    LET row == [workspace |-> dataset_dict.workspace, name |-> dataset_dict.name,
                version |-> dataset_dict.version,
                yield_workflow_workspace |-> dataset_dict.yield_workflow.workspace,
                yield_workflow_name |-> dataset_dict.yield_workflow.name,
                yield_workflow_version |-> dataset_dict.yield_workflow.version,
                log_message |-> dataset_dict.log_message,
                timestamp |-> dataset_dict.timestamp,
                id_column |-> dataset_dict.id_column,
                size |-> dataset_dict.size,
                filename |-> dataset_dict.filename,
                parent_dataset_workspace |-> dataset_dict.parent_dataset.workspace,
                parent_dataset_name |-> dataset_dict.parent_dataset.name,
                parent_dataset_version |-> dataset_dict.parent_dataset.version]
    IN  IF KeyClash(datasets, row)
        THEN [kind |-> "IntegrityError", table |-> datasets]
        ELSE IF /\ ForeignKeysEnforced
                \* the new row itself can be the row referred to
                /\ \/ ~DatasetWorkflowForeignKey(workflows, row)
                   \/ ~DatasetParentForeignKey(datasets \cup {row}, row)
        THEN [kind |-> "IntegrityError", table |-> datasets]
        ELSE [kind |-> "ok", table |-> datasets \cup {row}]

\* INSERT INTO dataset_tag on a connection with PRAGMA foreign_keys set to
\* foreign_keys; PRIMARY KEY (tag_name, tag_version)
create_one_dataset_tag_on(foreign_keys, tags, tag_dict) ==
    LET row == [dataset_name |-> tag_dict.dataset_name,
                dataset_version |-> tag_dict.dataset_version,
                tag_name |-> tag_dict.tag_name, tag_version |-> tag_dict.tag_version]
    IN  IF foreign_keys /\ ForeignKeyMismatch
        THEN [kind |-> "OperationalError", table |-> tags]
        ELSE IF \E t \in tags : <<t.tag_name, t.tag_version>> = <<row.tag_name, row.tag_version>>
        THEN [kind |-> "IntegrityError", table |-> tags]
        ELSE [kind |-> "ok", table |-> tags \cup {row}]

\* INSERT INTO dataset_tag
create_one_dataset_tag(tags, tag_dict) ==
    create_one_dataset_tag_on(ForeignKeysEnforced, tags, tag_dict)

\* dataci/db/run.py: SELECT COALESCE(MAX(run_num), 0) + 1 FROM run
\*   WHERE pipeline_name = ? AND pipeline_version = ?
\* run has the columns workflow_name and workflow_version: no such column
get_next_run_num(runs, pipeline_name, pipeline_version) ==
    [kind |-> "OperationalError"]

\* dataci/db/run.py: INSERT INTO run(run_num, pipeline_name, pipeline_version)
create_one_run(runs, run_dict) ==
    [kind |-> "OperationalError", table |-> runs]


(***************************************************************************)
(* dataci/dataset/dataset.py.  A Dataset object is a record of its         *)
(* attributes; parent_dataset and yield_workflow are <<>> for None or      *)
(* <<object>>.                                                             *)
(***************************************************************************)
\* Dataset.dict(): the yield_workflow property evaluates the name `workflow`,
\* which the module does not bind, as soon as _yield_workflow is not None;
\* the parent is recorded under the workspace of the dataset itself
Dataset_dict(self) ==
    IF self.yield_workflow # <<>>
    THEN [kind |-> "NameError"]
    ELSE [kind |-> "ok",
          workspace |-> self.workspace,
          name |-> self.name,
          timestamp |-> self.timestamp,
          parent_dataset |-> IF self.parent_dataset # <<>>
                             THEN [workspace |-> self.workspace,
                                   name |-> self.parent_dataset[1].name,
                                   version |-> self.parent_dataset[1].version]
                             ELSE NullRef,
          yield_workflow |-> NullRef,
          log_message |-> self.log_message,
          version |-> self.version,
          filename |-> self.filename,
          size |-> self.size,
          id_column |-> self.id_column]

\* Dataset.save (dataci/dataset/save.py): the dict of the object is inserted
Dataset_save(datasets, workflows, self) ==
    LET config == Dataset_dict(self)
    IN  IF config.kind # "ok"
        THEN [kind |-> config.kind, table |-> datasets]
        ELSE create_one_dataset(datasets, workflows, config)

\* the Dataset objects of the callers in workspace w
DatasetObjects(w) ==
    [workspace : {w}, name : DatasetNames, version : DatasetVersions,
     timestamp : {1}, log_message : {""}, filename : {"d.csv"}, size : {1},
     id_column : {"id"},
     parent_dataset : {<<>>} \cup {<<o>> : o \in [workspace : Workspaces, name : DatasetNames,
                                                   version : DatasetVersions \cup {None}]},
     yield_workflow : {<<>>} \cup {<<o>> : o \in [workspace : {w}, name : WorkflowNames,
                                                   version : WorkflowVersions]}]

(***************************************************************************)
(* dataci/workspace/__init__.py                                            *)
(***************************************************************************)
\* the script of dataci/db/init.py: DROP TABLE IF EXISTS of the five tables,
\* then CREATE TABLE: every table is empty afterwards
init(tables) == [workflow |-> {}, dataset |-> {}, dataset_tag |-> {}, run |-> {}]

\* create_or_use_workspace(workspace): directories and the bucket mount
\* (subprocess.run(cmd, check=True), which raises when s3fs fails), then
\* `from dataci.db import init`, which runs the module on the first import of
\* the interpreter, then os.environ['DATACI_WORKSPACE']
create_or_use_workspace(tables, imported, env, workspace, mounted) ==
    IF ~mounted
    THEN [kind |-> "CalledProcessError", tables |-> tables, imported |-> imported,
          environ |-> env]
    ELSE [kind |-> "ok",
          tables |-> IF imported THEN tables ELSE init(tables),
          imported |-> TRUE,
          environ |-> workspace]

(***************************************************************************)
(* The callers of the store of datasets and workflows.                     *)
(***************************************************************************)
Tables == [workflow |-> workflow, dataset |-> dataset, dataset_tag |-> dataset_tag,
           run |-> run]

CallCreateOneWorkflow(W) ==
    \E w \in W, n \in WorkflowNames, v \in WorkflowVersions :
        LET out == create_one_workflow(workflow, [workspace |-> w, name |-> n,
                                                  version |-> v, timestamp |-> 1])
        IN  /\ workflow' = out.table
            /\ ret' = [op |-> "create_one_workflow", kind |-> out.kind]
            /\ UNCHANGED <<stage, stage_tag, pc, next_tag, dataset, dataset_tag, run,
                           init_imported, environ, dag, save_pc, run_pc, run_num>>

CallDatasetSave(W) ==
    \E w \in W : \E self \in DatasetObjects(w) :
        LET out == Dataset_save(dataset, workflow, self)
        IN  /\ dataset' = out.table
            /\ ret' = [op |-> "Dataset.save", kind |-> out.kind,
                       row |-> [workspace |-> self.workspace, name |-> self.name,
                                version |-> self.version],
                       parent |-> self.parent_dataset,
                       parent_dataset |-> IF self.parent_dataset = <<>> THEN NullRef
                                          ELSE [workspace |-> self.workspace,
                                                name |-> self.parent_dataset[1].name,
                                                version |-> self.parent_dataset[1].version],
                       yield_workflow |-> IF self.yield_workflow = <<>> THEN NullRef
                                          ELSE self.yield_workflow[1]]
            /\ UNCHANGED <<stage, stage_tag, pc, next_tag, workflow, dataset_tag, run,
                           init_imported, environ, dag, save_pc, run_pc, run_num>>

\* a caller inserts a dataset row that names its producing workflow
CallCreateOneDataset(W) ==
    \E w \in W, n \in DatasetNames, v \in DatasetVersions,
       yw \in [workspace : W, name : WorkflowNames, version : WorkflowVersions] :
        LET out == create_one_dataset(dataset, workflow,
                       [workspace |-> w, name |-> n, version |-> v, timestamp |-> 1,
                        parent_dataset |-> NullRef, yield_workflow |-> yw,
                        log_message |-> "", filename |-> "d.csv", size |-> 1,
                        id_column |-> "id"])
        IN  /\ dataset' = out.table
            /\ ret' = [op |-> "create_one_dataset", kind |-> out.kind,
                       row |-> [workspace |-> w, name |-> n, version |-> v],
                       parent_dataset |-> NullRef, yield_workflow |-> yw]
            /\ UNCHANGED <<stage, stage_tag, pc, next_tag, workflow, dataset_tag, run,
                           init_imported, environ, dag, save_pc, run_pc, run_num>>

CallCreateOneDatasetTag(W) ==
    \E n \in DatasetNames, v \in DatasetVersions :
        LET out == create_one_dataset_tag(dataset_tag,
                       [dataset_name |-> n, dataset_version |-> v,
                        tag_name |-> n, tag_version |-> <<"v", "1">>])
        IN  /\ dataset_tag' = out.table
            /\ ret' = [op |-> "create_one_dataset_tag", kind |-> out.kind]
            /\ UNCHANGED <<stage, stage_tag, pc, next_tag, workflow, dataset, run,
                           init_imported, environ, dag, save_pc, run_pc, run_num>>

CallGetNextRunNum(W) ==
    \E n \in WorkflowNames, v \in WorkflowVersions :
        /\ ret' = [op |-> "get_next_run_num", kind |-> get_next_run_num(run, n, v).kind]
        /\ UNCHANGED <<stage, stage_tag, pc, next_tag, storeVars, dag, save_pc, run_pc, run_num>>

CallCreateOneRun(W) ==
    \E n \in WorkflowNames, v \in WorkflowVersions :
        LET out == create_one_run(run, [run_num |-> 1,
                                        pipeline |-> [name |-> n, version |-> v]])
        IN  /\ run' = out.table
            /\ ret' = [op |-> "create_one_run", kind |-> out.kind]
            /\ UNCHANGED <<stage, stage_tag, pc, next_tag, workflow, dataset, dataset_tag,
                           init_imported, environ, dag, save_pc, run_pc, run_num>>

CallCreateOrUseWorkspace(W) ==
    \E w \in W, mounted \in BOOLEAN :
        LET out == create_or_use_workspace(Tables, init_imported, environ, w, mounted)
        IN  /\ workflow' = out.tables.workflow
            /\ dataset' = out.tables.dataset
            /\ dataset_tag' = out.tables.dataset_tag
            /\ run' = out.tables.run
            /\ init_imported' = out.imported
            /\ environ' = out.environ
            /\ ret' = [op |-> "create_or_use_workspace", kind |-> out.kind]
            /\ UNCHANGED <<stage, stage_tag, pc, next_tag, dag, save_pc, run_pc, run_num>>

\* the interpreter exits and a new one starts: the database file stays, the
\* imported modules, the environment and the workflow context do not
ProcessRestart ==
    /\ init_imported' = FALSE
    /\ environ' = NoName
    /\ dag' = <<>>
    /\ ret' = [op |-> "restart"]
    /\ UNCHANGED <<stage, stage_tag, pc, next_tag, workflow, dataset, dataset_tag, run,
                   save_pc, run_pc, run_num>>

NextStore ==
    \/ CallCreateOneWorkflow(CallerWorkspaces)
    \/ CallDatasetSave(CallerWorkspaces)
    \/ CallCreateOneDataset(CallerWorkspaces)
    \/ CallCreateOneDatasetTag(CallerWorkspaces)
    \/ CallGetNextRunNum(CallerWorkspaces)
    \/ CallCreateOneRun(CallerWorkspaces)
    \/ CallCreateOrUseWorkspace(CallerWorkspaces)
    \/ ProcessRestart

SpecStore == Init /\ [][NextStore]_vars


(***************************************************************************)
(* The workflow graph of dataci/models/stage.py.  dag is <<>> when the     *)
(* workflow context holds no graph (context.get('dag') is None), else      *)
(* <<edges>>, the edges of the networkx DiGraph in the order of their      *)
(* insertion; the nodes of the graph are the ends of its edges.            *)
(***************************************************************************)
MaxEdges == 2

\* the Stage objects of a workflow
StageObjects == {"s1", "s2", "s3"}

\* the elements of a sequence
Range(seq) == {seq[i] : i \in 1..Len(seq)}

Nodes(edges) == {e[1] : e \in Range(edges)} \cup {e[2] : e \in Range(edges)}

\* DiGraph.add_edge(u, v): a new edge is appended, a present one stays
add_edge(edges, u, v) ==
    IF <<u, v>> \in Range(edges) THEN edges ELSE Append(edges, <<u, v>>)

RECURSIVE predecessors_from(_, _, _)
\* the sources of the edges into n, from position i on, each once, in the
\* order of insertion
predecessors_from(edges, n, i) ==
    IF i > Len(edges) THEN <<>>
    ELSE IF edges[i][2] = n
    THEN <<edges[i][1]>> \o predecessors_from(edges, n, i + 1)
    ELSE predecessors_from(edges, n, i + 1)

\* DiGraph.predecessors(n)
predecessors(edges, n) == predecessors_from(edges, n, 1)

\* a `with` block of a workflow binds a new, empty graph to the context
Workflow_enter == <<<<>>>>

\* Stage.add_downstream(stage), also written self >> stage
Stage_add_downstream(graph, self, downstream) ==
    IF graph = <<>>
    THEN [kind |-> "ValueError", dag |-> graph]
    ELSE [kind |-> "ok", dag |-> <<add_edge(graph[1], self, downstream)>>]

\* Stage.ancestors
Stage_ancestors(graph, self) ==
    IF graph = <<>>
    THEN \* None.predecessors
         [kind |-> "AttributeError"]
    ELSE IF self \notin Nodes(graph[1])
    THEN [kind |-> "NetworkXError"]
    ELSE [kind |-> "ok", out |-> predecessors(graph[1], self)]

WorkflowEnter ==
    /\ dag = <<>>
    /\ dag' = Workflow_enter
    /\ ret' = [op |-> "Workflow.enter"]
    /\ UNCHANGED <<stage, stage_tag, pc, next_tag, storeVars, save_pc, run_pc, run_num>>

WorkflowExit ==
    /\ dag # <<>>
    /\ dag' = <<>>
    /\ ret' = [op |-> "Workflow.exit"]
    /\ UNCHANGED <<stage, stage_tag, pc, next_tag, storeVars, save_pc, run_pc, run_num>>

CallAddDownstream ==
    \E self \in StageObjects, s \in StageObjects :
        LET out == Stage_add_downstream(dag, self, s)
        IN  /\ dag # <<>> => Len(dag[1]) < MaxEdges
            /\ dag' = out.dag
            /\ ret' = [op |-> "Stage.add_downstream", kind |-> out.kind,
                       self |-> self, stage |-> s]
            /\ UNCHANGED <<stage, stage_tag, pc, next_tag, storeVars, save_pc, run_pc, run_num>>

CallAncestors ==
    \E self \in StageObjects :
        /\ ret' = [op |-> "Stage.ancestors", self |-> self,
                   out |-> Stage_ancestors(dag, self)]
        /\ UNCHANGED <<stage, stage_tag, pc, next_tag, storeVars, dag, save_pc, run_pc, run_num>>

NextDag ==
    \/ WorkflowEnter
    \/ WorkflowExit
    \/ CallAddDownstream
    \/ CallAncestors
    \/ CallDatasetSave(CallerWorkspaces)

SpecDag == Init /\ [][NextDag]_vars

(***************************************************************************)
(* Identifiers.  An identifier is the sequence of its characters; the      *)
(* regular expressions are computed on it.                                 *)
(***************************************************************************)
Letters ==
    {"a", "b", "c", "d", "e", "f", "g", "h", "i", "j", "k", "l", "m", "n", "o", "p", "q",
     "r", "s", "t", "u", "v", "w", "x", "y", "z",
     "A", "B", "C", "D", "E", "F", "G", "H", "I", "J", "K", "L", "M", "N", "O", "P", "Q",
     "R", "S", "T", "U", "V", "W", "X", "Y", "Z"}

\* \w
WordChars == Letters \cup {DigitChars[i] : i \in 1..10} \cup {"_"}

\* [\da-f] under re.IGNORECASE
HexChars == {DigitChars[i] : i \in 1..10}
                \cup {"a", "b", "c", "d", "e", "f", "A", "B", "C", "D", "E", "F"}

\* the position of the first c in text, 0 when there is none
IndexOf(text, c) ==
    IF \E i \in 1..Len(text) : text[i] = c
    THEN CHOOSE i \in 1..Len(text) : text[i] = c /\ \A j \in 1..(i - 1) : text[j] # c
    ELSE 0

AllIn(text, chars) == \A i \in 1..Len(text) : text[i] \in chars

\* [a-z]\w* under re.IGNORECASE
IsModelName(text) == Len(text) >= 1 /\ text[1] \in Letters /\ AllIn(text, WordChars)

\* DEFAULT_WORKSPACE of dataci.config
DEFAULT_WORKSPACE == "wa"

\* the workspace or name a text denotes in the tables
Atom(text) ==
    CASE text = <<"w", "a">> -> "wa"
      [] text = <<"w", "b">> -> "wb"
      [] text = <<"c", "l", "e", "a", "n">> -> "clean"
      [] OTHER -> "other"

\* the version of an identifier: a hex digest or a prefix of one, a tag token
\* v<N>, latest or HEAD
IsVersionText(text) ==
    \/ Len(text) >= 1 /\ AllIn(text, HexChars)
    \/ Len(text) >= 2 /\ Lower(<<text[1]>>) = <<"v">> /\ IsNumeric(Rest(text))
    \/ Lower(text) \in {latest, Lower(HEAD)}

\* GET_DATA_MODEL_IDENTIFIER_PATTERN.match(text) of dataci.utils, the grammar
\* [workspace.]name[@version]: <<groups>>, or <<>> when there is no match
GET_DATA_MODEL_IDENTIFIER_PATTERN(text) ==
    LET at   == IndexOf(text, "@")
        head == IF at = 0 THEN text ELSE SubSeq(text, 1, at - 1)
        ver  == IF at = 0 THEN None ELSE SubSeq(text, at + 1, Len(text))
        dot  == IndexOf(head, ".")
        ws   == IF dot = 0 THEN None ELSE SubSeq(head, 1, dot - 1)
        nm   == IF dot = 0 THEN head ELSE SubSeq(head, dot + 1, Len(head))
    IN  IF /\ IsModelName(nm)
           /\ (dot = 0 \/ IsModelName(ws))
           /\ (at = 0 \/ IsVersionText(ver))
        THEN <<[workspace |-> ws, name |-> nm, version |-> ver]>>
        ELSE <<>>

\* Stage.get(name, version): the identifier is matched, then Stage_get
Stage_get_identifier(stages, tags, name, version) ==
    LET matched == GET_DATA_MODEL_IDENTIFIER_PATTERN(name)
    IN  IF matched = <<>>
        THEN {[kind |-> "ValueError"]}
        ELSE Stage_get(stages, tags,
                       IF matched[1].workspace = None THEN DEFAULT_WORKSPACE
                       ELSE Atom(matched[1].workspace),
                       Atom(matched[1].name), version, matched[1].version)

\* the selectors (train|val|test|all)
Splits == {<<"t", "r", "a", "i", "n">>, <<"v", "a", "l">>, <<"t", "e", "s", "t">>,
           <<"a", "l", "l">>}

\* (?:@([\da-f]{1,40}))?(?:\[(train|val|test|all)])?$ on the rest of the
\* identifier after the name group: <<groups>>, or <<>> when there is no match
ListTailMatch(rest) ==
    LET hasVer == Len(rest) >= 1 /\ rest[1] = "@"
        open   == IndexOf(rest, "[")
        verEnd == IF open = 0 THEN Len(rest) ELSE open - 1
        ver    == IF hasVer THEN SubSeq(rest, 2, verEnd) ELSE None
        tail   == IF hasVer THEN SubSeq(rest, verEnd + 1, Len(rest)) ELSE rest
        sel    == IF Len(tail) >= 2 THEN SubSeq(tail, 2, Len(tail) - 1) ELSE <<>>
    IN  IF /\ hasVer => (Len(ver) \in 1..40 /\ AllIn(ver, HexChars))
           /\ \/ tail = <<>>
              \/ /\ Len(tail) >= 2
                 /\ tail[1] = "["
                 /\ tail[Len(tail)] = "]"
                 /\ Lower(sel) \in Splits
        THEN <<[version |-> ver, split |-> IF tail = <<>> THEN None ELSE sel]>>
        ELSE <<>>

\* [\w.*[\]]
ListNameChars == WordChars \cup {".", "*", "[", "]"}

\* LIST_DATASET_IDENTIFIER_PATTERN.match(text): the name group is lazy, so
\* it is the shortest prefix of name characters after which the rest matches
LIST_DATASET_IDENTIFIER_PATTERN(text) ==
    LET ends == {i \in 1..Len(text) :
                     /\ AllIn(SubSeq(text, 1, i), ListNameChars)
                     /\ ListTailMatch(SubSeq(text, i + 1, Len(text))) # <<>>}
        i == CHOOSE k \in ends : \A j \in ends : k <= j
    IN  IF ends = {} THEN <<>>
        ELSE <<[name |-> SubSeq(text, 1, i),
                version |-> ListTailMatch(SubSeq(text, i + 1, Len(text)))[1].version,
                split |-> ListTailMatch(SubSeq(text, i + 1, Len(text)))[1].split]>>

\* list_dataset(repo, dataset_identifier): ValueError, or the name glob, the
\* version glob and the split glob by which the dataset directory is walked
list_dataset(dataset_identifier) ==
    LET identifier == IF Falsy(dataset_identifier) THEN <<"*">> ELSE dataset_identifier
        matched == LIST_DATASET_IDENTIFIER_PATTERN(identifier)
        split == IF Falsy(matched[1].split) THEN <<"*">> ELSE Lower(matched[1].split)
    IN  IF matched = <<>>
        THEN [kind |-> "ValueError"]
        ELSE [kind |-> "ok",
              dataset_name |-> IF Falsy(matched[1].name) THEN <<"*">> ELSE matched[1].name,
              version |-> (IF Falsy(matched[1].version) THEN <<>>
                           ELSE Lower(matched[1].version)) \o <<"*">>,
              split |-> IF split = <<"a", "l", "l">> THEN <<"*">> ELSE split]

\* the identifiers the callers of Stage.get pass
StageIdentifiers ==
    {ws \o nm \o ver :
        ws \in {<<>>, <<"w", "a", ".">>, <<"w", "b", ".">>, <<".">>},
        nm \in {<<"c", "l", "e", "a", "n">>, <<"c", "l", " ", "n">>, <<>>},
        ver \in {<<>>, <<"@", "a">>, <<"@", "A">>, <<"@">>, <<"@", "g">>,
                 <<"@", "a", "@", "b">>}}

\* the identifiers the callers of list_dataset pass
DatasetIdentifiers ==
    {None, <<>>} \cup
    {nm \o ver \o sel :
        nm \in {<<"d", "1">>, <<"d", "*">>},
        ver \in {<<>>, <<"@", "1">>, <<"@", "A">>, <<"@", "g">>},
        sel \in {<<>>, <<"[", "t", "r", "a", "i", "n", "]">>, <<"[", "v", "a", "l", "]">>,
                 <<"[", "t", "e", "s", "t", "]">>, <<"[", "a", "l", "l", "]">>,
                 <<"[", "A", "l", "l", "]">>, <<"[", "*", "]">>, <<"[", "d", "e", "v", "]">>,
                 <<"[", "t", "e", "s", "t">>}}

CallStageGetIdentifier ==
    \E name \in StageIdentifiers, v \in {None, <<>>, <<"a">>, <<"A">>, <<"N", "o", "n", "e">>} :
        \E out \in Stage_get_identifier(stage, stage_tag, name, v) :
            /\ ret' = [op |-> "Stage.get", identifier |-> name, version |-> v, out |-> out]
            /\ UNCHANGED <<stage, stage_tag, pc, next_tag, storeVars, dag, save_pc, run_pc, run_num>>

CallListDataset ==
    \E dataset_identifier \in DatasetIdentifiers :
        /\ ret' = [op |-> "list_dataset", identifier |-> dataset_identifier,
                   out |-> list_dataset(dataset_identifier)]
        /\ UNCHANGED <<stage, stage_tag, pc, next_tag, storeVars, dag, save_pc, run_pc, run_num>>

NextParse ==
    \/ CallStageGetIdentifier
    \/ CallListDataset
    \/ CallCreateOneStage(CallerWorkspaces)

SpecParse == Init /\ [][NextParse]_vars

(***************************************************************************)
(* Callers of two workspaces on one store.  The rows of stage, stage_tag,  *)
(* workflow and dataset carry the workspace of their artifact; the rows of *)
(* dataset_tag and run (dataci/db/init.py) have no workspace column.       *)
(***************************************************************************)
\* the rows of a table that belong to workspace w
OfWorkspace(rows, w) == {r \in rows : r.workspace = w}

\* a caller of workspace w tags its dataset n@v as n@v1.  The setting of
\* PRAGMA foreign_keys is that of the connection the caller's process opened
\* (sqlite3 leaves it off unless the pragma is executed)
CallTagDataset(W) ==
    \E w \in W, n \in DatasetNames, v \in DatasetVersions, foreign_keys \in BOOLEAN :
        LET tag_dict == [dataset_name |-> n, dataset_version |-> v,
                         tag_name |-> n, tag_version |-> <<"v", "1">>]
            out == create_one_dataset_tag_on(foreign_keys, dataset_tag, tag_dict)
        IN  /\ dataset_tag' = out.table
            /\ ret' = [op |-> "create_one_dataset_tag", kind |-> out.kind, workspace |-> w,
                       tag_dict |-> tag_dict, foreign_keys |-> foreign_keys]
            /\ UNCHANGED <<stage, stage_tag, pc, next_tag, workflow, dataset, run,
                           init_imported, environ, dag, save_pc, run_pc, run_num>>

NextWorkspaces ==
    \/ CallCreateOneStage(Workspaces)
    \/ CallCreateOneStageTag(Workspaces)
    \/ CallStageSave(Workspaces)
    \/ CallStagePublish(Workspaces)
    \/ CallTagDataset(Workspaces)

SpecWorkspaces == Init /\ [][NextWorkspaces]_vars

(***************************************************************************)
(* Concurrent callers that start a run of one workflow version: each calls *)
(* get_next_run_num and then create_one_run with the number it got, two    *)
(* transactions between which the calls of other callers can run.          *)
(***************************************************************************)
\* one transaction of caller p
RunStep(p) ==
    LET next == get_next_run_num(run, "w", <<"1">>)
        created == create_one_run(run, [run_num |-> run_num[p],
                                        pipeline |-> [name |-> "w", version |-> <<"1">>]])
    IN  /\ run_pc[p] \in {"idle", "allocated"}
        /\ CASE run_pc[p] = "idle" ->
                    /\ run_pc' = [run_pc EXCEPT ![p] =
                                      IF next.kind = "ok" THEN "allocated" ELSE "failed"]
                    /\ run_num' = [run_num EXCEPT ![p] =
                                       IF next.kind = "ok" THEN next.value ELSE 0]
                    /\ run' = run
                    /\ ret' = [op |-> "get_next_run_num", kind |-> next.kind, caller |-> p]
             [] run_pc[p] = "allocated" ->
                    /\ run_pc' = [run_pc EXCEPT ![p] =
                                      IF created.kind = "ok" THEN "done" ELSE "failed"]
                    /\ run_num' = run_num
                    /\ run' = created.table
                    /\ ret' = [op |-> "create_one_run", kind |-> created.kind, caller |-> p]
        /\ UNCHANGED <<stage, stage_tag, pc, next_tag, workflow, dataset, dataset_tag,
                       init_imported, environ, dag, save_pc>>

NextRuns ==
    \/ \E p \in Publishers : RunStep(p)
    \/ CallCreateOneWorkflow(Workspaces)
    \/ CallGetNextRunNum(Workspaces)
    \/ CallCreateOneRun(Workspaces)

SpecRuns == Init /\ [][NextRuns]_vars

(***************************************************************************)
(* Parent references of datasets: the reference Dataset.dict() records,    *)
(* and the parent the parent_dataset property loads from the reference of  *)
(* a dataset read back from its record.                                    *)
(***************************************************************************)
\* Dataset.from_dict(config): the parent reference it hands to __init__ has
\* the keys name and version only; <<>> is None
Dataset_from_dict(config) ==
    [workspace |-> config.workspace,
     name |-> config.name,
     version |-> config.version,
     parent_dataset |->
         IF /\ config.parent_dataset_workspace # NoName
            /\ config.parent_dataset_name # NoName
            /\ config.parent_dataset_version # None
         THEN <<[name |-> config.parent_dataset_name,
                 version |-> config.parent_dataset_version]>>
         ELSE <<>>]

\* Dataset.get('<workspace>.<name>@<version>'): the dataset under that identity
Dataset_get(datasets, workspace, name, version) ==
    LET found == {r \in datasets : /\ r.workspace = workspace
                                   /\ r.name = name
                                   /\ r.version = version}
    IN  IF found = {}
        THEN [kind |-> "NotFound"]
        ELSE [kind |-> "ok",
              value |-> <<[workspace |-> workspace, name |-> name, version |-> version]>>]

\* the property Dataset.parent_dataset of an object whose _parent_dataset is
\* None or a reference: the reference is read by its keys workspace, name
\* and version
Dataset_parent_dataset(datasets, self) ==
    IF self.parent_dataset = <<>>
    THEN [kind |-> "ok", value |-> <<>>]
    ELSE LET reference == self.parent_dataset[1]
         IN  IF "workspace" \notin DOMAIN reference
             THEN [kind |-> "KeyError"]
             ELSE Dataset_get(datasets, reference.workspace, reference.name,
                              reference.version)

\* a dataset is read back from its record and its parent is asked for
CallDatasetParent ==
    \E config \in dataset :
        LET self == Dataset_from_dict(config)
            out == Dataset_parent_dataset(dataset, self)
        IN  /\ ret' = [op |-> "Dataset.parent_dataset", kind |-> out.kind,
                       row |-> [workspace |-> config.workspace, name |-> config.name,
                                version |-> config.version],
                       recorded |-> [workspace |-> config.parent_dataset_workspace,
                                     name |-> config.parent_dataset_name,
                                     version |-> config.parent_dataset_version],
                       value |-> IF out.kind = "ok" THEN out.value ELSE <<>>]
            /\ UNCHANGED <<stage, stage_tag, pc, next_tag, storeVars, dag, save_pc,
                           run_pc, run_num>>

NextParent ==
    \/ CallDatasetSave(Workspaces)
    \/ CallDatasetParent

SpecParent == Init /\ [][NextParent]_vars

(***************************************************************************)
(* Pattern listings of stages.  The working copy of a stage is the row of  *)
(* the empty version, which the callers of create_one_stage can insert.    *)
(***************************************************************************)
VersionPatterns == {<<"*">>, <<"a", "*">>, <<"a">>, <<"a", "c", "*">>}

CallCreateOneStageOrHead(W) ==
    \E w \in W, n \in Names, v \in Versions \cup {<<>>}, ts \in Timestamps :
        LET out == create_one_stage(stage, [workspace |-> w, name |-> n, version |-> v,
                                            params |-> "lower_true", script_path |-> <<n, v>>,
                                            timestamp |-> ts])
        IN  /\ Cardinality(stage) < MaxStageRows
            /\ stage' = out.table
            /\ ret' = [op |-> "create_one_stage", kind |-> out.kind, workspace |-> w,
                       name |-> n, version |-> v]
            /\ UNCHANGED <<stage_tag, pc, next_tag, storeVars, dag, save_pc, run_pc, run_num>>

CallListStages(W) ==
    \E w \in W, n \in Names \cup {"*", "other"}, v \in VersionPatterns, all \in BOOLEAN :
        /\ ret' = [op |-> "get_many_stages", workspace |-> w, name |-> n, version |-> v,
                   all |-> all, out |-> get_many_stages(stage, w, n, v, all)]
        /\ UNCHANGED <<stage, stage_tag, pc, next_tag, storeVars, dag, save_pc, run_pc, run_num>>

NextListStages ==
    \/ CallCreateOneStageOrHead(Workspaces)
    \/ CallListStages(Workspaces)

SpecListStages == Init /\ [][NextListStages]_vars

(***************************************************************************)
(* The default workspace.  Workspace.__init__ reads the environment        *)
(* variable DATACI_WORKSPACE at every call, and create_or_use_workspace     *)
(* sets it; Stage.get uses DEFAULT_WORKSPACE, the value dataci.config had   *)
(* when dataci/models/stage.py was imported.                               *)
(***************************************************************************)
\* Workspace(name): name is NoName for None
Workspace_init(env, name) ==
    LET used == IF name = NoName THEN env ELSE name
    IN  IF used = NoName
        THEN [kind |-> "ValueError"]
        ELSE [kind |-> "ok", name |-> used]

\* Dataset(name): the name is split at '.', the workspace is Workspace(...)
Dataset_init(env, name) ==
    LET dot == IndexOf(name, ".")
        workspace_name == IF dot = 0 THEN NoName ELSE Atom(SubSeq(name, 1, dot - 1))
        dataset_name == IF dot = 0 THEN name ELSE SubSeq(name, dot + 1, Len(name))
        workspace == Workspace_init(env, workspace_name)
    IN  IF IndexOf(dataset_name, ".") # 0
        THEN \* workspace_name, dataset_name = name.split('.') of three parts
             [kind |-> "ValueError"]
        ELSE IF workspace.kind # "ok"
        THEN [kind |-> workspace.kind]
        ELSE [kind |-> "ok", workspace |-> workspace.name, name |-> dataset_name]

\* the identifiers and versions the callers of Stage.get look up
DefaultIdentifiers ==
    {<<"c", "l", "e", "a", "n">>, <<"w", "a", ".", "c", "l", "e", "a", "n">>,
     <<"w", "b", ".", "c", "l", "e", "a", "n">>}

CallDatasetInit ==
    \E name \in {<<"d">>, <<"w", "a", ".", "d">>, <<"w", "b", ".", "d">>,
                 <<"w", "a", ".", "d", ".", "d">>} :
        /\ ret' = [op |-> "Dataset.__init__", name |-> name,
                   out |-> Dataset_init(environ, name)]
        /\ UNCHANGED <<stage, stage_tag, pc, next_tag, storeVars, dag, save_pc, run_pc, run_num>>

CallStageGetDefault ==
    \E name \in DefaultIdentifiers, v \in {<<"a">>, <<"a", "b">>} :
        \E out \in Stage_get_identifier(stage, stage_tag, name, v) :
            /\ ret' = [op |-> "Stage.get", identifier |-> name, version |-> v, out |-> out]
            /\ UNCHANGED <<stage, stage_tag, pc, next_tag, storeVars, dag, save_pc, run_pc, run_num>>

NextDefault ==
    \/ CallCreateOrUseWorkspace(Workspaces)
    \/ ProcessRestart
    \/ CallCreateOneStage(Workspaces)
    \/ CallDatasetInit
    \/ CallStageGetDefault

SpecDefault == Init /\ [][NextDefault]_vars

(***************************************************************************)
(* dataci/dataset/__init__.py: the construction of an unpublished Dataset. *)
(* A path is the record of its cache directory and its file name; the      *)
(* bytes of a file are those of its name, in whatever directory it lies.   *)
(* A list is a sequence, '' is <<>>.                                       *)
(***************************************************************************)
CacheDirs == {"cache1", "cache2"}
FileNames == {"train.csv", "val.csv"}
BuildTimes == {1, 2}

\* the bytes stored under a path
FileContent(path) == <<"bytes", path.name>>

\* generate_dataset_version_id of dataci.dataset.utils: the digest of the file
\* contents, the producing pipeline, the log message and the parent dataset;
\* distinct inputs have distinct digests
generate_dataset_version_id(dataset_files, yield_pipeline, log_message, parent_dataset) ==
    <<"sha1", [i \in 1..Len(dataset_files) |-> FileContent(dataset_files[i])],
      yield_pipeline, log_message, parent_dataset>>

\* the dataset_files argument of Dataset(...): None, one path (as
\* publish_dataset passes it) or a mapping of split to path
DatasetFiles ==
    {[kind |-> "None"]}
        \cup {[kind |-> "path", path |-> p] : p \in [dir : CacheDirs, name : FileNames]}
        \cup {[kind |-> "mapping", values |-> <<p>>] : p \in [dir : CacheDirs, name : FileNames]}

\* Dataset.__init__ without config, which runs _build_config at the time now:
\* self._dataset_files.values() needs a mapping (a path and None have no
\* values), and self.dvc_config then evaluates self._dataset_files.parent,
\* which a mapping does not have
Dataset_build_config(dataset_files, yield_pipeline_arg, log_message_arg, parent_dataset, now) ==
    LET yield_pipeline == IF Falsy(yield_pipeline_arg) THEN <<>> ELSE yield_pipeline_arg
        log_message == IF Falsy(log_message_arg) THEN <<>> ELSE log_message_arg
    IN  IF dataset_files.kind # "mapping"
        THEN [kind |-> "AttributeError", line |-> 196]
        ELSE LET version == generate_dataset_version_id(dataset_files.values, yield_pipeline,
                                                        log_message, parent_dataset)
                 config == [timestamp |-> now, parent_dataset |-> parent_dataset,
                            yield_pipeline |-> yield_pipeline, log_message |-> log_message,
                            version |-> version]
             IN  \* self.config['dvc_config'] = deepcopy(self.dvc_config)
                 [kind |-> "AttributeError", line |-> 224]

\* the callers construct a Dataset with files, a pipeline, a log message and
\* a parent, each of the last three None, empty or given
CallDatasetBuild ==
    \E files \in DatasetFiles, yp \in {None, <<>>, <<"p">>}, lm \in {None, <<>>, <<"m">>},
       pd \in {None, <<"r">>}, now \in BuildTimes :
        /\ ret' = [op |-> "Dataset._build_config", dataset_files |-> files,
                   yield_pipeline |-> yp, log_message |-> lm, parent_dataset |-> pd,
                   now |-> now,
                   out |-> Dataset_build_config(files, yp, lm, pd, now)]
        /\ UNCHANGED <<stage, stage_tag, pc, next_tag, storeVars, dag, save_pc, run_pc, run_num>>

NextBuild == CallDatasetBuild

SpecBuild == Init /\ [][NextBuild]_vars

(***************************************************************************)
(* list_dataset over the dataset directory of a repo.  The directory is    *)
(* the set of its entries <<dataset, split, version>>: the folder of a     *)
(* dataset holds one <split>.yaml per split, whose keys are the versions.  *)
(***************************************************************************)
RepoDatasets == {<<"d", "1">>, <<"d", "2">>}
RepoSplits == {<<"t", "r", "a", "i", "n">>, <<"v", "a", "l">>}
RepoVersions == {<<"1", "a">>, <<"2", "b">>}

MaxRepoEntries == 2

\* the dataset directories a repo can hold
Repos == {r \in SUBSET (RepoDatasets \X RepoSplits \X RepoVersions) :
              Cardinality(r) <= MaxRepoEntries}

RECURSIVE list_dataset_walk(_, _, _, _)
\* the loop over the matched dataset folders, which glob() yields in any
\* order: the set of outcomes.  Dataset(..., split=split, ...) is a call with
\* a keyword that Dataset.__init__ does not take, and the loop variable
\* `split` of the inner loop overwrites the split glob of the outer one
list_dataset_walk(repo, datasets, split, version) ==
    IF datasets = {} THEN {[kind |-> "ok", entries |-> {}]}
    ELSE UNION {
        LET splits == {e[2] : e \in {x \in repo : x[1] = d /\ Glob(split, x[2])}}
            rest == datasets \ {d}
        IN  IF splits = {}
            THEN list_dataset_walk(repo, rest, split, version)
            ELSE IF \E e \in repo : e[1] = d /\ e[2] \in splits /\ Glob(version, e[3])
            THEN {[kind |-> "TypeError"]}
            ELSE UNION {list_dataset_walk(repo, rest, last, version) : last \in splits}
        : d \in datasets}

\* list_dataset(repo, dataset_identifier, tree_view): the set of outcomes;
\* the entries of the tree view are its paths name -> split -> version
list_dataset_repo(repo, dataset_identifier, tree_view) ==
    LET parsed == list_dataset(dataset_identifier)
    IN  IF parsed.kind # "ok"
        THEN {[kind |-> parsed.kind]}
        ELSE list_dataset_walk(repo,
                 {d \in {e[1] : e \in repo} : Glob(parsed.dataset_name, d)},
                 parsed.split, parsed.version)

\* the callers of list_dataset pass an identifier for a listing
CallListDatasetRepo ==
    \E repo \in Repos,
       dataset_identifier \in
           {None, <<"d", "1">>, <<"d", "*">>, <<"d", "1", "@", "1">>,
            <<"d", "*", "@", "2", "B">>, <<"d", "*", "[", "v", "a", "l", "]">>,
            <<"d", "2", "[", "a", "l", "l", "]">>, <<"d", "1", "[", "d", "e", "v", "]">>},
       tree_view \in BOOLEAN :
        \E out \in list_dataset_repo(repo, dataset_identifier, tree_view) :
            /\ ret' = [op |-> "list_dataset", repo |-> repo,
                       identifier |-> dataset_identifier, tree_view |-> tree_view,
                       out |-> out]
            /\ UNCHANGED <<stage, stage_tag, pc, next_tag, storeVars, dag, save_pc, run_pc, run_num>>

NextList == CallListDatasetRepo

SpecList == Init /\ [][NextList]_vars

(***************************************************************************)
(* The lineage relation the properties speak of: the edges of the workflow *)
(* graph and the parent references of the dataset rows.                    *)
(***************************************************************************)
\* the sources of the edges of the set E that lead into the set S
PredStep(E, S) == {e[1] : e \in {x \in E : x[2] \in S}}

RECURSIVE PredWithin(_, _, _)
\* the nodes from which n is reached by a path of 1..k edges of E
PredWithin(E, n, k) ==
    IF k <= 0 THEN {}
    ELSE IF k = 1 THEN PredStep(E, {n})
    ELSE PredWithin(E, n, k - 1) \cup PredStep(E, PredWithin(E, n, k - 1))

TransitiveAncestors(E, n) == PredWithin(E, n, Cardinality(E))

\* the length of the shortest path from the ancestor u to n
Distance(E, n, u) ==
    CHOOSE k \in 1..Cardinality(E) :
        u \in PredWithin(E, n, k) /\ u \notin PredWithin(E, n, k - 1)

Acyclic(E) == \A e \in E : e[2] \notin TransitiveAncestors(E, e[2])

\* the edges parent -> child of the dataset rows
ParentEdges(datasets) ==
    {<<<<r.parent_dataset_workspace, r.parent_dataset_name, r.parent_dataset_version>>,
       RowKey(r)>> :
        r \in {x \in datasets : ~HasNull(x.parent_dataset_workspace, x.parent_dataset_name,
                                         x.parent_dataset_version)}}


(***************************************************************************)
(* Properties.                                                             *)
(***************************************************************************)

\* C1: a completed Stage.save() returns a version and leaves exactly one row
\* for that (workspace, name, version), so that saving the same content
\* twice yields the same version and adds no second row.
C1_SaveIdempotent ==
    ret.op = "Stage.save" =>
        /\ ret.kind = "ok"
        /\ Cardinality({s \in stage : /\ s.workspace = ret.workspace
                                      /\ s.name = ret.name
                                      /\ s.version = ret.version}) = 1

\* C2: when N publishers of distinct content have concurrently published
\* under one (workspace, name), whatever the interleaving of their next-tag
\* computations and tag insertions, every publisher succeeded and the tags
\* assigned are exactly 1..N.
C2_ConcurrentTagsDense ==
    (\A p \in Publishers : pc[p] \in {"done", "failed"}) =>
        /\ \A p \in Publishers : pc[p] = "done"
        /\ {t.tag : t \in {x \in stage_tag : x.workspace = PubWorkspace /\ x.name = PubName}}
               = 1..NumPublishers

\* C3: the k-th sequential Stage.publish() of a stage succeeds and is assigned
\* tag v<k>; afterwards name@latest resolves to the content just published and
\* name@v<i> resolves to the version that holds tag i, for every i <= k.
C3_SequentialPublishTags ==
    ret.op = "Stage.publish" =>
        /\ ret.kind = "ok"
        /\ LET tags == {t \in stage_tag : t.workspace = ret.workspace /\ t.name = ret.name}
               k == Cardinality(tags)
           IN  /\ ret.tag = k
               /\ {t.tag : t \in tags} = 1..k
               /\ \A r \in get_one_stage(stage, stage_tag, ret.workspace, ret.name, latest) :
                      r.kind = "ok" /\ r.version = ret.version
               /\ \A t \in tags :
                      \A r \in get_one_stage(stage, stage_tag, ret.workspace, ret.name, TagToken(t.tag)) :
                          r.kind = "ok" /\ r.version = t.version

\* C4: in every store state where (workspace, name) has at least one tag,
\* "latest" resolves to the version that owns the numerically highest tag,
\* on the single-get path (get_one_stage) and on the list path (get_many_stages).
C4_LatestIsMaxTag ==
    \A w \in Workspaces, n \in Names :
        LET tags == {t \in stage_tag : t.workspace = w /\ t.name = n}
            top == CHOOSE t \in tags : \A u \in tags : u.tag <= t.tag
        IN  tags # {} =>
                /\ \A r \in get_one_stage(stage, stage_tag, w, n, latest) :
                       r.kind = "ok" /\ r.version = top.version
                /\ {r.version : r \in get_many_stages(stage, w, n, latest, FALSE)} = {top.version}

\* C5: when (workspace, name) has saved versions but no tag, "latest" and
\* "HEAD" report NotFound (for a single-get: the failure of a lookup that
\* finds no row; for a listing: an empty result) and never fall back to an
\* untagged version.
C5_LatestWithoutTagNotFound ==
    \A w \in Workspaces, n \in Names :
        ( /\ \E s \in stage : s.workspace = w /\ s.name = n
          /\ ~\E t \in stage_tag : t.workspace = w /\ t.name = n )
        => /\ get_one_stage(stage, stage_tag, w, n, latest) = {get_one_stage_dict(<<>>)}
           /\ Stage_get(stage, stage_tag, w, n, HEAD, None) = {get_one_stage_dict(<<>>)}
           /\ get_many_stages(stage, w, n, latest, FALSE) = {}

\* C6: the tag token v<N> resolves to the version whose tag row holds the
\* integer N for (workspace, name), and reports NotFound (the failure of a
\* lookup that finds no row) when there is no such tag row.
C6_TagTokenResolves ==
    \A w \in Workspaces, n \in Names, k \in 1..MaxTagNum :
        LET rows == {t \in stage_tag : t.workspace = w /\ t.name = n /\ t.tag = k}
        IN  \A r \in get_one_stage(stage, stage_tag, w, n, TagToken(k)) :
                IF rows = {}
                THEN r = get_one_stage_dict(<<>>)
                ELSE r.kind = "ok" /\ r.version \in {t.version : t \in rows}

\* C7: for a single-get, a hex prefix (of length 1 up to the full length)
\* that is a prefix of exactly one stored version of (workspace, name)
\* resolves to that version.
C7_UniquePrefixResolves ==
    \A w \in Workspaces, n \in Names, p \in Versions :
        LET matches == {s \in stage : s.workspace = w /\ s.name = n /\ IsPrefix(p, s.version)}
        IN  Cardinality(matches) = 1 =>
                \A r \in Stage_get(stage, stage_tag, w, n, None, p) :
                    r.kind = "ok" /\ r.version \in {s.version : s \in matches}

C9_RepublishKeepsTag ==
    ( /\ ret.op = "Stage.publish"
      /\ \E t \in stage_tag : t.workspace = ret.workspace /\ t.name = ret.name )
    => /\ ret.kind = "ok"
       /\ \E t \in stage_tag : /\ t.workspace = ret.workspace
                               /\ t.name = ret.name
                               /\ t.version = ret.version
                               /\ t.tag = ret.tag

C12_PersistedVersionImmutable ==
    [][ ret'.op \in {"Stage.save", "Stage.publish"} =>
            /\ \A s \in stage : s.version # None => s \in stage'
            /\ ret'.kind = "ok"
            /\ \E s \in stage' : StageKey(s) = <<ret'.workspace, ret'.name, ret'.version>>
            /\ \A s \in stage :
                   \A r \in get_one_stage(stage', stage_tag', s.workspace, s.name, s.version) :
                       /\ r.kind = "ok"
                       /\ r.version = s.version
                       /\ r.script_path = s.script_path ]_vars

\* C17: a Stage.save() completes and replaces the creation timestamp of no
\* stored row: a row that was there before the save is there afterwards
\* under the same (workspace, name, version) with the timestamp of its first
\* save.
C17_SaveKeepsTimestamp ==
    [][ ret'.op = "Stage.save" =>
            /\ ret'.kind = "ok"
            /\ \A s \in stage :
                   \E s2 \in stage' : /\ StageKey(s2) = StageKey(s)
                                       /\ s2.timestamp = s.timestamp ]_vars

\* C15: no step removes a persisted record: every row of workflow, dataset,
\* dataset_tag and run that is stored before a step is stored after it, in
\* particular across create_or_use_workspace.
C15_NoRecordRemoved ==
    [][ /\ workflow \subseteq workflow'
        /\ dataset \subseteq dataset'
        /\ dataset_tag \subseteq dataset_tag'
        /\ run \subseteq run' ]_vars

\* C16: the insertion of a dataset whose parent reference or producing
\* workflow reference is non-null and names a (workspace, name, version)
\* without a stored record is refused and leaves the dataset table as it was;
\* the insertion of a dataset with both references absent (under a key not
\* yet stored) is accepted.
C16_DanglingReferenceRejected ==
    [][ ret'.op \in {"Dataset.save", "create_one_dataset"} =>
            LET p == ret'.parent_dataset
                y == ret'.yield_workflow
                danglingParent ==
                    /\ ~HasNull(p.workspace, p.name, p.version)
                    /\ ~\E r \in dataset : RowKey(r) = <<p.workspace, p.name, p.version>>
                danglingWorkflow ==
                    /\ ~HasNull(y.workspace, y.name, y.version)
                    /\ ~\E w \in workflow : RowKey(w) = <<y.workspace, y.name, y.version>>
            IN  /\ (danglingParent \/ danglingWorkflow) =>
                       (ret'.kind # "ok" /\ dataset' = dataset)
                /\ (p = NullRef /\ y = NullRef /\ ~KeyClash(dataset, ret'.row)) =>
                       /\ ret'.kind = "ok"
                       /\ \E r \in dataset' : RowKey(r) = RowKey(ret'.row) ]_vars

\* C13: the lineage graph is acyclic in every reachable state: no stage is
\* (transitively) upstream of itself in the workflow graph and no dataset is
\* (transitively) its own parent; an edge that would close a cycle is refused.
C13_LineageAcyclic ==
    /\ dag # <<>> => Acyclic(Range(dag[1]))
    /\ Acyclic(ParentEdges(dataset))

\* C18: Stage.ancestors of a stage of an acyclic workflow graph returns every
\* transitive ancestor of the stage, each once, nearest first (for a stage
\* with one upstream stage that has none itself: exactly that stage).
C18_AncestorsTransitive ==
    ( /\ ret.op = "Stage.ancestors"
      /\ dag # <<>>
      /\ ret.self \in Nodes(dag[1])
      /\ Acyclic(Range(dag[1])) ) =>
        LET E == Range(dag[1])
            out == ret.out.out
        IN  /\ ret.out.kind = "ok"
            /\ Range(out) = TransitiveAncestors(E, ret.self)
            /\ \A i, j \in 1..Len(out) :
                   i < j => /\ out[i] # out[j]
                            /\ Distance(E, ret.self, out[i]) <= Distance(E, ret.self, out[j])

\* C14: when concurrent callers have saved the same content of one stage,
\* whatever the interleaving of their existence checks and inserts, every
\* save completed and exactly one row holds the saved version.
C14_ConcurrentSaveOnce ==
    (\A p \in Publishers : save_pc[p] \in {"done", "failed"}) =>
        /\ \A p \in Publishers : save_pc[p] = "done"
        /\ Cardinality({s \in stage : /\ s.workspace = PubWorkspace
                                      /\ s.name = PubName
                                      /\ s.version = SaveConfig(1).version}) = 1

\* C19: Stage.get(identifier, version) fails with ValueError, whatever the
\* store holds, when the identifier does not match the grammar or when both
\* an explicit version and an embedded @version are supplied (a version is
\* supplied when it is a non-empty text); when exactly one is supplied, the
\* outcome is that of the lookup of that version (in lower case, 'none'
\* standing for no version) under the workspace and name of the identifier.
C19_GetParseErrors ==
    (ret.op = "Stage.get" /\ "identifier" \in DOMAIN ret) =>
        LET matched == GET_DATA_MODEL_IDENTIFIER_PATTERN(ret.identifier)
            explicit == ~Falsy(ret.version)
            embedded == matched[1].version # None
            workspace == IF matched[1].workspace = None THEN DEFAULT_WORKSPACE
                         ELSE Atom(matched[1].workspace)
            used == Lower(IF explicit THEN ret.version ELSE matched[1].version)
        IN  IF matched = <<>> \/ (explicit /\ embedded)
            THEN ret.out.kind = "ValueError"
            ELSE (explicit \/ embedded) =>
                     ret.out \in get_one_stage(stage, stage_tag, workspace,
                                               Atom(matched[1].name),
                                               IF used = <<"n", "o", "n", "e">> THEN None
                                               ELSE used)

\* C19 witness: Stage.get was called with a well-formed identifier that embeds
\* the version of a stored row and with an explicit version as well, and
\* failed with ValueError.
C19_Witness ==
    /\ ret.op = "Stage.get"
    /\ "identifier" \in DOMAIN ret
    /\ ret.identifier = <<"w", "a", ".", "c", "l", "e", "a", "n", "@", "a">>
    /\ ret.version = <<"a">>
    /\ ret.out.kind = "ValueError"
    /\ \E s \in stage : s.workspace = "wa" /\ s.name = "clean" /\ s.version = <<"a">>

\* C20: list_dataset fails with ValueError for an identifier that ends in a
\* bracketed selector other than train, val, test or all (in any case of the
\* letters), such as d1[*].
C20_BadSplitRejected ==
    (ret.op = "list_dataset" /\ ~Falsy(ret.identifier)) =>
        LET text == ret.identifier
            open == IndexOf(text, "[")
            sel  == SubSeq(text, open + 1, Len(text) - 1)
        IN  (open # 0 /\ text[Len(text)] = "]" /\ Lower(sel) \notin Splits) =>
                ret.out.kind = "ValueError"

\* C21: an unpublished Dataset is constructed with a version, and that version
\* is the one every Dataset of the same file contents, producing pipeline,
\* log message and parent gets, whatever the time of its construction and
\* the cache directory its files lie in.
C21_VersionFromSemanticFields ==
    (ret.op = "Dataset._build_config" /\ ret.dataset_files.kind # "None") =>
        LET contents(f) == IF f.kind = "path" THEN <<FileContent(f.path)>>
                           ELSE [i \in 1..Len(f.values) |-> FileContent(f.values[i])]
        IN  /\ ret.out.kind = "ok"
            /\ \A files \in DatasetFiles, now \in BuildTimes :
                   ( /\ files.kind = ret.dataset_files.kind
                     /\ contents(files) = contents(ret.dataset_files) )
                   => LET other == Dataset_build_config(files, ret.yield_pipeline,
                                                        ret.log_message, ret.parent_dataset,
                                                        now)
                      IN  other.kind = "ok" /\ other.version = ret.out.version

\* C22: for every dataset directory and every valid list identifier,
\* list_dataset returns, as a tree and as a flat list alike, exactly the
\* stored entries (dataset, split, version) whose name matches the name glob,
\* whose split matches the selector (every split when it is omitted or 'all')
\* and whose version starts with the given prefix.
C22_ListReturnsMatches ==
    ( /\ ret.op = "list_dataset"
      /\ "repo" \in DOMAIN ret
      /\ list_dataset(ret.identifier).kind = "ok" ) =>
        LET parsed == list_dataset(ret.identifier)
            prefix == SubSeq(parsed.version, 1, Len(parsed.version) - 1)
            expected == {e \in ret.repo : /\ Glob(parsed.dataset_name, e[1])
                                          /\ (parsed.split = <<"*">> \/ parsed.split = e[2])
                                          /\ IsPrefix(prefix, e[3])}
        IN  /\ ret.out.kind = "ok"
            /\ ret.out.entries = expected

\* C23: a step of a caller of workspace A that saves, publishes or tags an
\* artifact leaves the rows of every other workspace B as they were, has the
\* outcome it would have on a store without the rows of B, and leaves every
\* resolution in B with the result it had before; a dataset tag that a caller
\* of B has just inserted does not change the outcome of the same tag of the
\* same dataset name in A.
C23_WorkspacesIsolated ==
    [][ /\ ret'.op \in {"create_one_stage", "create_one_stage_tag", "Stage.save",
                        "Stage.publish"} =>
               LET a == ret'.workspace
                   mine == OfWorkspace(stage, a)
                   mytags == OfWorkspace(stage_tag, a)
               IN  /\ \A b \in Workspaces \ {a} :
                          /\ OfWorkspace(stage', b) = OfWorkspace(stage, b)
                          /\ OfWorkspace(stage_tag', b) = OfWorkspace(stage_tag, b)
                          /\ \A n \in Names :
                                 /\ get_next_stage_version_tag(stage_tag', b, n)
                                        = get_next_stage_version_tag(stage_tag, b, n)
                                 /\ \A v \in QueryVersions :
                                        /\ get_one_stage(stage', stage_tag', b, n, v)
                                               = get_one_stage(stage, stage_tag, b, n, v)
                                        /\ exist_stage(stage', stage_tag', b, n, v)
                                               = exist_stage(stage, stage_tag, b, n, v)
                   /\ ret'.op = "create_one_stage" =>
                          ret'.kind = create_one_stage(mine,
                                          [workspace |-> a, name |-> ret'.name,
                                           version |-> ret'.version, params |-> "lower_true",
                                           script_path |-> <<>>, timestamp |-> 1]).kind
                   /\ ret'.op = "create_one_stage_tag" =>
                          ret'.kind = create_one_stage_tag(mine, mytags,
                                          [workspace |-> a, name |-> ret'.name,
                                           version |-> ret'.version,
                                           version_tag |-> TagToken(ret'.tag)]).kind
                   /\ ret'.op = "Stage.save" =>
                          ret'.kind = Stage_save(mine, mytags, a, ret'.name, ret'.script, 1).kind
                   /\ ret'.op = "Stage.publish" =>
                          ret'.kind = Stage_publish(mine, mytags, a, ret'.name, ret'.script, 1).kind
        /\ ( /\ ret.op = "create_one_dataset_tag"
             /\ "workspace" \in DOMAIN ret
             /\ ret.kind = "ok"
             /\ ret'.op = "create_one_dataset_tag"
             /\ ret'.workspace # ret.workspace ) =>
               LET theirs == [dataset_name |-> ret.tag_dict.dataset_name,
                              dataset_version |-> ret.tag_dict.dataset_version,
                              tag_name |-> ret.tag_dict.tag_name,
                              tag_version |-> ret.tag_dict.tag_version]
               IN  ret'.kind = create_one_dataset_tag_on(ret'.foreign_keys,
                                   dataset_tag \ {theirs}, ret'.tag_dict).kind ]_vars

\* C24: a Dataset constructed under a name that carries a workspace lies in
\* that workspace, and Stage.get of an identifier that carries a workspace
\* looks the stage up there; when the workspace is omitted, both use the
\* default workspace of the process (the one create_or_use_workspace has set);
\* when it is omitted and the process has no default, the construction fails;
\* neither operation changes the store.
C24_DefaultWorkspace ==
    [][ /\ ret'.op = "Dataset.__init__" =>
               LET dot == IndexOf(ret'.name, ".")
                   named == dot # 0 /\ IndexOf(SubSeq(ret'.name, dot + 1, Len(ret'.name)), ".") = 0
               IN  /\ UNCHANGED <<stage, stage_tag, storeVars, run_pc, run_num>>
                   /\ named => /\ ret'.out.kind = "ok"
                               /\ ret'.out.workspace = Atom(SubSeq(ret'.name, 1, dot - 1))
                   /\ (dot = 0 /\ environ # NoName) =>
                          ret'.out.kind = "ok" /\ ret'.out.workspace = environ
                   /\ (dot = 0 /\ environ = NoName) => ret'.out.kind # "ok"
        /\ (ret'.op = "Stage.get" /\ "identifier" \in DOMAIN ret') =>
               LET matched == GET_DATA_MODEL_IDENTIFIER_PATTERN(ret'.identifier)
                   found(w) == get_one_stage(stage, stage_tag, w, Atom(matched[1].name),
                                             ret'.version)
               IN  /\ UNCHANGED <<stage, stage_tag, storeVars, run_pc, run_num>>
                   /\ (matched # <<>> /\ matched[1].workspace # None) =>
                          ret'.out \in found(Atom(matched[1].workspace))
                   /\ (matched # <<>> /\ matched[1].workspace = None /\ environ # NoName) =>
                          ret'.out \in found(environ) ]_vars

\* C25: get_many_stages without a version returns the working copy (the row
\* of the empty version) of (workspace, name) when there is one, and what
\* get_many_stages returns for 'latest' when there is none.
C25_NoVersionFallsBackToLatest ==
    \A w \in Workspaces, n \in Names :
        LET head == {s \in stage : s.workspace = w /\ s.name = n /\ s.version = <<>>}
            out == get_many_stages(stage, w, n, None, FALSE)
        IN  IF head # {}
            THEN {r.version : r \in out} = {<<>>}
            ELSE out = get_many_stages(stage, w, n, latest, FALSE)

\* C26: get_many_stages with a version pattern (a prefix followed by '*', or
\* a full version) returns the records of exactly the stored rows of the
\* workspace whose name matches the name glob and whose version matches the
\* pattern, the row of the empty version among them only when the flag all is
\* set: with the flag unset no returned record has an empty version.
C26_PatternListing ==
    (ret.op = "get_many_stages" /\ ret.version \in VersionPatterns) =>
        LET pat == ret.version
            star == pat[Len(pat)] = "*"
            matches(v) == IF star THEN IsPrefix(SubSeq(pat, 1, Len(pat) - 1), v) ELSE v = pat
            expected == {s \in stage : /\ s.workspace = ret.workspace
                                       /\ (ret.name = "*" \/ s.name = ret.name)
                                       /\ matches(s.version)
                                       /\ (ret.all \/ s.version # <<>>)}
        IN  /\ {<<r.workspace, r.name, r.version>> : r \in ret.out}
                   = {StageKey(s) : s \in expected}
            /\ Cardinality(ret.out) = Cardinality(expected)
            /\ ~ret.all => \A r \in ret.out : r.version # <<>>

\* C26 witness: a listing with the pattern '*' and the flag unset returned a
\* record, and none of an empty version, while the working copy of a
\* matching stage is stored.
C26_Witness ==
    /\ ret.op = "get_many_stages"
    /\ ret.version = <<"*">>
    /\ ret.out # {}
    /\ \E s \in stage : /\ s.workspace = ret.workspace
                        /\ (ret.name = "*" \/ s.name = ret.name)
                        /\ s.version = <<>>
    /\ ~ret.all
    /\ \A r \in ret.out : r.version # <<>>

\* C27: in every store state, for every (workspace, name) and every version
\* argument (a full version id, a tag token v<N>, 'latest', or the unset
\* version that Stage.save passes), exist_stage and get_one_stage both
\* return, and exist_stage returns 1 exactly when get_one_stage returns a
\* record.
C27_ExistAgreesWithGet ==
    \A w \in Workspaces, n \in Names, v \in QueryVersions \cup {None} :
        LET exist == exist_stage(stage, stage_tag, w, n, v)
        IN  /\ exist.kind = "ok"
            /\ \A r \in get_one_stage(stage, stage_tag, w, n, v) :
                   \/ r.kind = "ok" /\ exist.value = 1
                   \/ r.kind = "NotFound" /\ exist.value = 0

\* C28: no (workspace, name) ever has two working-copy rows (rows without a
\* version), and a Stage.save() or Stage.publish() completes and leaves
\* exactly one working-copy row for its stage, which points at the script
\* written by that call.
C28_OneWorkingCopy ==
    [][ /\ \A w \in Workspaces, n \in Names :
               Cardinality({s \in stage' : s.workspace = w /\ s.name = n /\ Falsy(s.version)}) <= 1
        /\ ret'.op \in {"Stage.save", "Stage.publish"} =>
               /\ ret'.kind = "ok"
               /\ \E s \in stage' :
                      /\ s.workspace = ret'.workspace
                      /\ s.name = ret'.name
                      /\ Falsy(s.version)
                      /\ s.script_path = <<ret'.name, HEAD>>
                      /\ s.timestamp \in Timestamps ]_vars

\* C29: when every caller has called get_next_run_num and then create_one_run
\* for the same workflow version, whatever the interleaving, no call failed
\* and the runs recorded for that workflow version are numbered 1..k, one
\* row per caller (the first run of a workflow version has the number 1).
C29_RunNumbersDense ==
    (\A p \in Publishers : run_pc[p] \in {"done", "failed"}) =>
        /\ \A p \in Publishers : run_pc[p] = "done"
        /\ {run_num[p] : p \in Publishers} = 1..NumPublishers
        /\ Cardinality(run) = NumPublishers

\* C30: the parent reference a dataset persists is the identity (workspace,
\* name, version) of the parent itself, its workspace being that of the
\* parent and not that of the child, and the parent_dataset property of a
\* dataset read back from its record returns the dataset of the recorded
\* reference.
C30_ParentReferenceIsParentIdentity ==
    /\ ( /\ ret.op = "Dataset.save"
         /\ ret.kind = "ok"
         /\ ret.parent # <<>>
         /\ \E p \in dataset : /\ p.workspace = ret.parent[1].workspace
                               /\ p.name = ret.parent[1].name
                               /\ p.version = ret.parent[1].version )
       => \A r \in dataset :
              ( /\ r.workspace = ret.row.workspace
                /\ r.name = ret.row.name
                /\ r.version = ret.row.version )
              => /\ r.parent_dataset_workspace = ret.parent[1].workspace
                 /\ r.parent_dataset_name = ret.parent[1].name
                 /\ r.parent_dataset_version = ret.parent[1].version
    /\ ( /\ ret.op = "Dataset.parent_dataset"
         /\ ret.recorded.workspace # NoName
         /\ ret.recorded.name # NoName
         /\ ret.recorded.version # None )
       => /\ ret.kind = "ok"
          /\ ret.value = <<ret.recorded>>

====
